---- MODULE Spec2Model ----
(***************************************************************************)
(* Context propagation and sampling decision of the SolarWinds APM         *)
(* OpenTelemetry distro: _SwSampler / ParentBasedSwSampler (sampler.py)    *)
(* and SolarWindsFormat (propagator.py).                                   *)
(*                                                                         *)
(* Strings are sequences of one-character strings, so that formatting,     *)
(* serialising and parsing of headers are computed, not assumed.           *)
(* A TraceState is a sequence of <<key, value>> pairs in header order.     *)
(***************************************************************************)
EXTENDS Integers, Sequences, FiniteSets, TLC

VARIABLES current, last, carrier, nSpans, oracleCalls, hop, tt, codec, api,
          os_environ, reporter

\* the sampler, the propagation pipeline and the trigger-trace response
core == <<current, last, carrier, nSpans, oracleCalls, hop, tt>>

\* the codec functions, the API calls, the process environment, the exporter
side == <<codec, api, os_environ, reporter>>

vars == <<current, last, carrier, nSpans, oracleCalls, hop, tt, codec, api,
          os_environ, reporter>>

(* ------------------------------ bounds -------------------------------- *)

\* number of spans one behaviour creates
MaxSpans == 2

(* --------------------------- string helpers --------------------------- *)

HexDigits ==
    <<"0","1","2","3","4","5","6","7","8","9","a","b","c","d","e","f">>

RECURSIVE HexOf(_)
\* the digits of format(n, "x")
HexOf(n) ==
    IF n < 16 THEN <<HexDigits[n + 1]>>
    ELSE HexOf(n \div 16) \o <<HexDigits[(n % 16) + 1]>>

RECURSIVE ZeroPad(_, _)
\* the "0<width>" part of a format spec: pad on the left, never truncate
ZeroPad(s, width) ==
    IF Len(s) >= width THEN s ELSE ZeroPad(<<"0">> \o s, width)

IsHexString(s, n) ==
    /\ Len(s) = n
    /\ \A i \in 1..Len(s) : \E d \in 1..16 : s[i] = HexDigits[d]

\* index of the first occurrence of character c in s, 0 when absent
IndexOf(s, c) ==
    IF \E i \in 1..Len(s) : s[i] = c
    THEN CHOOSE i \in 1..Len(s) : s[i] = c /\ \A j \in 1..(i - 1) : s[j] # c
    ELSE 0

RECURSIVE SplitOn(_, _)
\* s.split(c): the pieces of s between occurrences of c, empty pieces kept
SplitOn(s, c) ==
    LET i == IndexOf(s, c)
    IN  IF i = 0 THEN <<s>>
        ELSE <<SubSeq(s, 1, i - 1)>> \o SplitOn(SubSeq(s, i + 1, Len(s)), c)

(* ------------------- opentelemetry.trace.span.TraceState -------------- *)

SW == <<"s","w">>

KeyChars == {"a","b","c","d","e","f","o","r","s","v","w","0","1","2","-","_"}
KeyStart == {"a","b","c","d","e","f","o","r","s","v","w"}

\* _is_valid_pair: key and value match the W3C key and value grammars
IsValidPair(key, value) ==
    /\ Len(key) >= 1
    /\ key[1] \in KeyStart
    /\ \A i \in 1..Len(key) : key[i] \in KeyChars
    /\ Len(value) >= 1
    /\ \A i \in 1..Len(value) : value[i] \notin {",", "="}
    /\ value[Len(value)] # " "

Keys(ts) == { ts[i][1] : i \in 1..Len(ts) }

HasKey(ts, key) == key \in Keys(ts)

KeyPos(ts, key) == CHOOSE i \in 1..Len(ts) : ts[i][1] = key

\* TraceState.get(key, None); None is rendered as the empty string, which
\* no stored value can be (IsValidPair), and both are falsy in Python
TraceState_get(ts, key) ==
    IF HasKey(ts, key) THEN ts[KeyPos(ts, key)][2] ELSE <<>>

RECURSIVE DropInvalid(_)
DropInvalid(pairs) ==
    IF pairs = <<>> THEN <<>>
    ELSE IF IsValidPair(pairs[1][1], pairs[1][2])
         THEN <<pairs[1]>> \o DropInvalid(Tail(pairs))
         ELSE DropInvalid(Tail(pairs))

\* TraceState(entries): invalid pairs are dropped, order kept
TraceState(entries) == DropInvalid(entries)

Without(ts, key) == SelectSeq(ts, LAMBDA p : p[1] # key)

\* TraceState.add(key, value): a NEW TraceState with the pair in front;
\* the receiver is returned when the key is already there
TraceState_add(ts, key, value) ==
    IF ~IsValidPair(key, value) \/ HasKey(ts, key) THEN ts
    ELSE TraceState(<<<<key, value>>>> \o ts)

\* TraceState.update(key, value): a NEW TraceState with the value replaced
\* and the pair moved to the front; the receiver when the key is absent
TraceState_update(ts, key, value) ==
    IF ~IsValidPair(key, value) \/ ~HasKey(ts, key) THEN ts
    ELSE TraceState(<<<<key, value>>>> \o Without(ts, key))

RECURSIVE to_header(_)
\* TraceState.to_header(): ",".join(key + "=" + value)
to_header(ts) ==
    IF ts = <<>> THEN <<>>
    ELSE ts[1][1] \o <<"=">> \o ts[1][2]
         \o (IF Len(ts) = 1 THEN <<>> ELSE <<",">> \o to_header(Tail(ts)))

RECURSIVE MembersOf(_)
\* every list-member of every header of the list, in order; empty members
\* are skipped (re.split on the "," delimiter)
MembersOf(header_list) ==
    IF header_list = <<>> THEN <<>>
    ELSE SelectSeq(SplitOn(header_list[1], ","), LAMBDA m : m # <<>>)
         \o MembersOf(Tail(header_list))

RECURSIVE ParseMembers(_, _)
\* the loop of from_header: [ok, pairs]; a member that is no key=value,
\* or a duplicate key, abandons the whole parse
ParseMembers(members, pairs) ==
    IF members = <<>> THEN [ok |-> TRUE, pairs |-> pairs]
    ELSE LET m     == members[1]
             i     == IndexOf(m, "=")
             key   == SubSeq(m, 1, i - 1)
             value == SubSeq(m, i + 1, Len(m))
         IN  IF i = 0 \/ ~IsValidPair(key, value) \/ HasKey(pairs, key)
             THEN [ok |-> FALSE, pairs |-> <<>>]
             ELSE ParseMembers(Tail(members), pairs \o <<<<key, value>>>>)

\* TraceState.from_header(header_list): header_list is a LIST of header
\* strings
from_header(header_list) ==
    LET r == ParseMembers(MembersOf(header_list), <<>>)
    IN  IF r.ok THEN TraceState(r.pairs) ELSE <<>>

\* what iterating a Python str yields: its one-character strings
CharsOf(s) == [i \in 1..Len(s) |-> <<s[i]>>]

(* ------------------------- SpanContext, Decision ---------------------- *)

\* SpanContext.is_valid: neither id is the all-zero id
is_valid(ctx) == ctx.trace_id # 0 /\ ctx.span_id # 0

\* trace.INVALID_SPAN_CONTEXT, the context of "no current span"
INVALID_SPAN_CONTEXT ==
    [trace_id |-> 0, span_id |-> 0, trace_flags |-> 0,
     trace_state |-> <<>>, is_remote |-> FALSE]

\* TraceFlags.sampled: bit 0
sampled(ctx) == ctx.trace_flags % 2 = 1

DROP == "DROP"
RECORD_ONLY == "RECORD_ONLY"
RECORD_AND_SAMPLE == "RECORD_AND_SAMPLE"

(* --------------------------- w3c_transformer -------------------------- *)

\* span_id_from_int: 16 hex characters, zero-padded, lowercase
span_id_from_int(span_id) == ZeroPad(HexOf(span_id), 16)

\* trace_flags_from_int: 2 hex characters, zero-padded, lowercase
trace_flags_from_int(flags) == ZeroPad(HexOf(flags), 2)

\* sw_from_span_and_decision: "<span id>-<flags>"
sw_from_span_and_decision(span_id, decision) ==
    span_id_from_int(span_id) \o <<"-">> \o decision

\* traceparent_from_context: "00-<trace id>-<span id>-<flags>"
traceparent_from_context(span_context) ==
    <<"0", "0", "-">> \o ZeroPad(HexOf(span_context.trace_id), 32)
    \o <<"-">> \o span_id_from_int(span_context.span_id)
    \o <<"-">> \o trace_flags_from_int(span_context.trace_flags)

\* sw_from_context: "<span id>-<flags>" of the span context
sw_from_context(span_context) ==
    sw_from_span_and_decision(
        span_context.span_id,
        trace_flags_from_int(span_context.trace_flags))

(* ------------------------------ attributes ---------------------------- *)

\* Attributes: None, or a mapping from attribute names to strings
NoneAttributes == [none |-> TRUE, kv |-> <<>>]

Attrs(f) == [none |-> FALSE, kv |-> f]

\* Python truthiness of an Attributes value: None and {} are falsy
Truthy(attributes) == ~attributes.none /\ DOMAIN attributes.kv # {}

\* d[key] = value on a copy of d
DictSet(d, key, value) ==
    [k \in DOMAIN d \cup {key} |-> IF k = key THEN value ELSE d[k]]

\* d.get(key, None), None rendered as the empty string (both falsy)
DictGet(d, key) == IF key \in DOMAIN d THEN d[key] ELSE <<>>

W3C_TRACESTATE == "sw.w3c.tracestate"
TRACESTATE_PARENT_ID == "sw.tracestate_parent_id"

(* ------------------------------ _SwSampler ---------------------------- *)

\* mutant: the two tests in the other order, so do_metrics overrides
otel_decision_from_liboboe_MetricsLast(liboboe_decision) ==
    LET d0 == DROP
        d1 == IF liboboe_decision.do_sample # 0 THEN RECORD_AND_SAMPLE ELSE d0
        d2 == IF liboboe_decision.do_metrics # 0 THEN RECORD_ONLY ELSE d1
    IN  d2

\* _SwSampler.otel_decision_from_liboboe
otel_decision_from_liboboe(liboboe_decision) ==
    LET d0 == DROP
        d1 == IF liboboe_decision.do_metrics # 0 THEN RECORD_ONLY ELSE d0
        d2 == IF liboboe_decision.do_sample # 0 THEN RECORD_AND_SAMPLE ELSE d1
    IN  d2

\* mutant: sw is added to the parent's trace state instead of a fresh one
create_new_trace_state_OntoParent(decision, parent_span_context) ==
    TraceState(<< <<SW, sw_from_span_and_decision(
                          parent_span_context.span_id,
                          trace_flags_from_int(decision.do_sample))>> >>
               \o Without(parent_span_context.trace_state, SW))

\* _SwSampler.create_new_trace_state
create_new_trace_state(decision, parent_span_context) ==
    TraceState(<< <<SW, sw_from_span_and_decision(
                          parent_span_context.span_id,
                          trace_flags_from_int(decision.do_sample))>> >>)

\* mutant: the sw value is replaced where it stands, not moved to the front
calculate_trace_state_InPlace(decision, parent_span_context) ==
    IF ~is_valid(parent_span_context)
    THEN create_new_trace_state(decision, parent_span_context)
    ELSE LET trace_state == parent_span_context.trace_state
             value == sw_from_span_and_decision(
                          parent_span_context.span_id,
                          trace_flags_from_int(decision.do_sample))
         IN  IF trace_state = <<>> \/ TraceState_get(trace_state, SW) = <<>>
             THEN create_new_trace_state(decision, parent_span_context)
             ELSE [i \in 1..Len(trace_state) |->
                     IF trace_state[i][1] = SW THEN <<SW, value>>
                     ELSE trace_state[i]]

\* mutant: an sw member already there is updated with the parent's own
\* sampled flag
calculate_trace_state_ParentFlags(decision, parent_span_context) ==
    IF ~is_valid(parent_span_context)
    THEN create_new_trace_state(decision, parent_span_context)
    ELSE LET trace_state == parent_span_context.trace_state
         IN  IF trace_state = <<>> \/ TraceState_get(trace_state, SW) = <<>>
             THEN create_new_trace_state(decision, parent_span_context)
             ELSE TraceState_update(
                      trace_state, SW,
                      sw_from_span_and_decision(
                          parent_span_context.span_id,
                          trace_flags_from_int(
                              parent_span_context.trace_flags)))

\* _SwSampler.calculate_trace_state
calculate_trace_state(decision, parent_span_context) ==
    IF ~is_valid(parent_span_context)
    THEN create_new_trace_state(decision, parent_span_context)
    ELSE LET trace_state == parent_span_context.trace_state
         IN  IF trace_state = <<>> \/ TraceState_get(trace_state, SW) = <<>>
             THEN create_new_trace_state(decision, parent_span_context)
             ELSE TraceState_update(
                      trace_state, SW,
                      sw_from_span_and_decision(
                          parent_span_context.span_id,
                          trace_flags_from_int(decision.do_sample)))

\* mutant: the two sw attributes are always put in a fresh dict, the
\* caller's other attributes are not copied
merged_attributes_OnlySwKeys(attributes, decision, trace_state, parent_span_context) ==
    Attrs([k \in {TRACESTATE_PARENT_ID, W3C_TRACESTATE} |->
             IF k = TRACESTATE_PARENT_ID
             THEN span_id_from_int(parent_span_context.span_id)
             ELSE to_header(trace_state)])

\* _SwSampler.calculate_attributes, from "Set attributes with
\* sw.tracestate_parent_id and sw.w3c.tracestate" on
merged_attributes(attributes, decision, trace_state, parent_span_context) ==
    IF ~Truthy(attributes)
    THEN Attrs([k \in {TRACESTATE_PARENT_ID, W3C_TRACESTATE} |->
                  IF k = TRACESTATE_PARENT_ID
                  THEN span_id_from_int(parent_span_context.span_id)
                  ELSE to_header(trace_state)])
    ELSE LET new_attributes == attributes.kv
             with_tracestate ==
                 IF DictGet(new_attributes, W3C_TRACESTATE) = <<>>
                 THEN DictSet(new_attributes, W3C_TRACESTATE,
                              to_header(trace_state))
                 ELSE \* from_header is handed the attribute string itself;
                      \* the TraceState that update() returns is not bound
                      LET attr_trace_state ==
                              from_header(CharsOf(new_attributes[W3C_TRACESTATE]))
                          unused ==
                              TraceState_update(
                                  attr_trace_state, SW,
                                  sw_from_span_and_decision(
                                      parent_span_context.span_id,
                                      trace_flags_from_int(decision.do_sample)))
                      IN  DictSet(new_attributes, W3C_TRACESTATE,
                                  to_header(attr_trace_state))
         IN  Attrs(DictSet(with_tracestate, TRACESTATE_PARENT_ID,
                           span_id_from_int(parent_span_context.span_id)))

\* mutant: the "don't set attributes if not tracing" test is missing
calculate_attributes_NoDropTest(attributes, decision, trace_state, parent_span_context) ==
    IF ~is_valid(parent_span_context) \/ trace_state = <<>>
    THEN NoneAttributes
    ELSE merged_attributes(attributes, decision, trace_state,
                           parent_span_context)

\* _SwSampler.calculate_attributes
calculate_attributes(attributes, decision, trace_state, parent_span_context) ==
    IF otel_decision_from_liboboe(decision) = DROP THEN NoneAttributes
    ELSE IF ~is_valid(parent_span_context) \/ trace_state = <<>>
    THEN NoneAttributes
    ELSE merged_attributes(attributes, decision, trace_state,
                           parent_span_context)

\* mutant: new_attributes is bound to the caller's mapping, not to a copy
written_dict_CallerMap(attributes) ==
    IF ~Truthy(attributes) THEN "literal" ELSE "attributes"

\* _SwSampler.calculate_attributes: the dict object its item assignments
\* write: the dict literal bound when the caller's attributes are empty or
\* None, else new_attributes, the dict the caller's items are copied into
written_dict(attributes) ==
    IF ~Truthy(attributes) THEN "literal" ELSE "new_attributes"

\* _SwSampler.calculate_attributes: the caller's mapping once the call has
\* returned; it changes only if the written dict is the caller's own object
caller_map_after(attributes, calculated) ==
    IF ~calculated.none /\ written_dict(attributes) = "attributes"
    THEN calculated ELSE attributes

\* _SwSampler.calculate_attributes, "return MappingProxyType(attributes)":
\* the object handed back is a read-only view of the written dict
returned_mapping(attributes, calculated) ==
    IF calculated.none
    THEN [view_of |-> "none", read_only |-> FALSE]
    ELSE [view_of |-> written_dict(attributes), read_only |-> TRUE]

\* _SwSampler.calculate_liboboe_decision: the 11-tuple Context.getDecisions
\* returns is unpacked with no exception handler around the call, so an
\* exception of the call, or of the unpacking of a malformed record, leaves
\* the method
calculate_liboboe_decision(outcome) ==
    IF outcome.status = "ok"
    THEN [raised |-> FALSE, do_metrics |-> outcome.do_metrics,
          do_sample |-> outcome.do_sample]
    ELSE [raised |-> TRUE, do_metrics |-> 0 - 1, do_sample |-> 0 - 1]

\* _SwSampler.calculate_liboboe_decision: the two arguments of the
\* Context.getDecisions call
getDecisions_arguments(parent_span_context) ==
    [in_xtrace  |-> traceparent_from_context(parent_span_context),
     tracestate |-> sw_from_context(parent_span_context)]

\* no Context.getDecisions call
NoArguments == [in_xtrace |-> <<>>, tracestate |-> <<>>]

\* _SwSampler.should_sample: the SamplingResult for the liboboe decision
\* that Context.getDecisions returned for this call
SwSampler_should_sample(parent_span_context, attributes, liboboe_decision) ==
    LET trace_state == calculate_trace_state(liboboe_decision,
                                             parent_span_context)
        attrs       == calculate_attributes(attributes, liboboe_decision,
                                            trace_state, parent_span_context)
        decision    == otel_decision_from_liboboe(liboboe_decision)
    IN  [decision    |-> decision,
         attributes  |-> IF decision # DROP THEN attrs ELSE NoneAttributes,
         trace_state |-> trace_state]

(* ------------------------- ParentBasedSwSampler ----------------------- *)

SW_SAMPLER == "_SwSampler"
ALWAYS_ON == "ALWAYS_ON"
ALWAYS_OFF == "ALWAYS_OFF"

\* mutant: remote_parent_not_sampled left at the ParentBased default
SamplerOfSlot_RemoteDefault(slot) ==
    CASE slot = "root"                      -> SW_SAMPLER
      [] slot = "remote_parent_sampled"     -> SW_SAMPLER
      [] slot = "remote_parent_not_sampled" -> ALWAYS_OFF
      [] slot = "local_parent_sampled"      -> ALWAYS_ON
      [] slot = "local_parent_not_sampled"  -> ALWAYS_OFF

\* mutant: the engine is installed in the local-parent slots as well
SamplerOfSlot_LocalEngine(slot) ==
    CASE slot = "root"                      -> SW_SAMPLER
      [] slot = "remote_parent_sampled"     -> SW_SAMPLER
      [] slot = "remote_parent_not_sampled" -> SW_SAMPLER
      [] slot = "local_parent_sampled"      -> SW_SAMPLER
      [] slot = "local_parent_not_sampled"  -> SW_SAMPLER

\* mutant: ALWAYS_ON installed for local parents that are not sampled
SamplerOfSlot_LocalAlwaysOn(slot) ==
    CASE slot = "root"                      -> SW_SAMPLER
      [] slot = "remote_parent_sampled"     -> SW_SAMPLER
      [] slot = "remote_parent_not_sampled" -> SW_SAMPLER
      [] slot = "local_parent_sampled"      -> ALWAYS_ON
      [] slot = "local_parent_not_sampled"  -> ALWAYS_ON

\* ParentBasedSwSampler.__init__: the sampler of each ParentBased slot; the
\* two local-parent slots keep the ParentBased defaults
SamplerOfSlot(slot) ==
    CASE slot = "root"                      -> SW_SAMPLER
      [] slot = "remote_parent_sampled"     -> SW_SAMPLER
      [] slot = "remote_parent_not_sampled" -> SW_SAMPLER
      [] slot = "local_parent_sampled"      -> ALWAYS_ON
      [] slot = "local_parent_not_sampled"  -> ALWAYS_OFF

\* ParentBased.should_sample: which slot serves a parent span context
SlotOf(parent_span_context) ==
    IF ~is_valid(parent_span_context) THEN "root"
    ELSE IF parent_span_context.is_remote
    THEN (IF sampled(parent_span_context) THEN "remote_parent_sampled"
          ELSE "remote_parent_not_sampled")
    ELSE (IF sampled(parent_span_context) THEN "local_parent_sampled"
          ELSE "local_parent_not_sampled")

\* StaticSampler.should_sample (ALWAYS_ON, ALWAYS_OFF): the fixed decision,
\* the caller's attributes unless dropping, the parent's trace state
StaticSampler_should_sample(decision, parent_span_context, attributes) ==
    [decision    |-> decision,
     attributes  |-> IF decision = DROP THEN NoneAttributes ELSE attributes,
     trace_state |-> IF is_valid(parent_span_context)
                     THEN parent_span_context.trace_state ELSE <<>>]

\* number of Context.getDecisions calls one should_sample of a sampler makes
OracleCallsOf(sampler) == IF sampler = SW_SAMPLER THEN 1 ELSE 0

\* mutant: the engine keeps the record of its first oracle call and
\* decides every later call with it
ParentBased_should_sample_CachedRecord(parent_span_context, attributes, liboboe_decision) ==
    LET sampler == SamplerOfSlot(SlotOf(parent_span_context))
        record  == IF last.sampler = SW_SAMPLER /\ ~last.raised
                   THEN last.liboboe ELSE liboboe_decision
    IN  CASE sampler = SW_SAMPLER ->
               SwSampler_should_sample(parent_span_context, attributes,
                                       record)
          [] sampler = ALWAYS_ON ->
               StaticSampler_should_sample(RECORD_AND_SAMPLE,
                                           parent_span_context, attributes)
          [] sampler = ALWAYS_OFF ->
               StaticSampler_should_sample(DROP, parent_span_context,
                                           attributes)

\* ParentBasedSwSampler.should_sample
ParentBased_should_sample(parent_span_context, attributes, liboboe_decision) ==
    LET sampler == SamplerOfSlot(SlotOf(parent_span_context))
    IN  CASE sampler = SW_SAMPLER ->
               SwSampler_should_sample(parent_span_context, attributes,
                                       liboboe_decision)
          [] sampler = ALWAYS_ON ->
               StaticSampler_should_sample(RECORD_AND_SAMPLE,
                                           parent_span_context, attributes)
          [] sampler = ALWAYS_OFF ->
               StaticSampler_should_sample(DROP, parent_span_context,
                                           attributes)

(* --------------------------- SolarWindsFormat ------------------------- *)

\* SolarWindsFormat.format_span_id: format(span_id, "016x")
format_span_id(span_id) == ZeroPad(HexOf(span_id), 16)

\* SolarWindsFormat.format_trace_flags: format(trace_flags, "02x")
format_trace_flags(trace_flags) == ZeroPad(HexOf(trace_flags), 2)

\* mutant: an sw member that is already there is left as it is
inject_tracestate_KeepsSw(span_context) ==
    LET span_id     == format_span_id(span_context.span_id)
        trace_flags == format_trace_flags(span_context.trace_flags)
        sw_value    == span_id \o <<"-">> \o trace_flags
        trace_state == span_context.trace_state
        out ==
            IF trace_state # <<>> THEN trace_state
            ELSE TraceState(<< <<SW, sw_value>> >>)
    IN  to_header(out)

\* mutant: the sw member is put in front of the members already there,
\* an earlier sw member included
inject_tracestate_Prepends(span_context) ==
    LET span_id     == format_span_id(span_context.span_id)
        trace_flags == format_trace_flags(span_context.trace_flags)
        sw_value    == span_id \o <<"-">> \o trace_flags
    IN  to_header(<< <<SW, sw_value>> >> \o span_context.trace_state)

\* SolarWindsFormat.inject: the tracestate header written to the carrier
inject_tracestate(span_context) ==
    LET span_id     == format_span_id(span_context.span_id)
        trace_flags == format_trace_flags(span_context.trace_flags)
        sw_value    == span_id \o <<"-">> \o trace_flags
        trace_state == span_context.trace_state
        out ==
            IF trace_state # <<>>
            THEN IF HasKey(trace_state, SW)
                 THEN \* OrderedDict: assign, move_to_end(last=False)
                      TraceState(<< <<SW, sw_value>> >>
                                 \o Without(trace_state, SW))
                 ELSE \* trace_state.add(...) returns a new TraceState,
                      \* which is not bound: trace_state stays as it was
                      LET unused == TraceState_add(trace_state, SW, sw_value)
                      IN  trace_state
            ELSE TraceState(<< <<SW, sw_value>> >>)
    IN  to_header(out)

(* ------------------------------- inputs ------------------------------- *)

V1 == <<"v","1">>
V2 == <<"v","2">>

\* an sw member left by the upstream service: e000baa4e000baa4-01
UpstreamSw ==
    <<"e","0","0","0","b","a","a","4","e","0","0","0","b","a","a","4",
      "-","0","1">>

\* the tracestate of an inbound request, as TraceContextTextMapPropagator
\* extracts it: empty, sw alone, foreign members alone, sw among them
InboundTraceStates ==
    { <<>>,
      << <<SW, UpstreamSw>> >>,
      << <<V1, <<"f">>>> >>,
      << <<V1, <<"f">>>>, <<V2, <<"b">>>> >>,
      << <<SW, UpstreamSw>>, <<V1, <<"f">>>> >>,
      << <<V1, <<"f">>>>, <<SW, UpstreamSw>>, <<V2, <<"b">>>> >> }

\* valid remote parents: the span contexts extracted from inbound carriers
RemoteParents ==
    { [trace_id |-> 4369, span_id |-> sid, trace_flags |-> fl,
       trace_state |-> ts, is_remote |-> TRUE] :
         sid \in {4096}, fl \in {0, 1}, ts \in InboundTraceStates }

\* invalid parents: no span at all, or a context with an all-zero id
InvalidParents ==
    { INVALID_SPAN_CONTEXT,
      [trace_id |-> 0, span_id |-> 4096, trace_flags |-> 1,
       trace_state |-> << <<V1, <<"f">>>> >>, is_remote |-> TRUE],
      [trace_id |-> 4369, span_id |-> 0, trace_flags |-> 0,
       trace_state |-> << <<SW, UpstreamSw>> >>, is_remote |-> TRUE] }

\* the (do_metrics, do_sample) pair of the record Context.getDecisions returns
LiboboeDecisions ==
    { [status |-> "ok", do_metrics |-> m, do_sample |-> s] :
        m \in {0, 1}, s \in {0, 1} }

NoLiboboeDecision == [status |-> "none", do_metrics |-> 0 - 1, do_sample |-> 0 - 1]

\* the ways the Context.getDecisions call can fail: it raises, or it returns
\* a record that is not the 11-tuple the caller unpacks
OracleFailures ==
    { [status |-> st, do_metrics |-> 0 - 1, do_sample |-> 0 - 1] :
        st \in {"raises", "malformed"} }

\* the parents under which the failing call is tried: none, and the remote
\* parents that carry only an upstream sw member
FailureParents ==
    {INVALID_SPAN_CONTEXT}
        \cup {p \in RemoteParents : p.trace_state = << <<SW, UpstreamSw>> >>}

\* the attributes a caller hands to start_span
CallerAttributes ==
    { NoneAttributes,
      Attrs(<<>>),
      Attrs([k \in {"other"} |-> <<"x">>]),
      Attrs([k \in {W3C_TRACESTATE, "other"} |->
               IF k = "other" THEN <<"x">> ELSE <<"v","1","=","f">>]),
      Attrs([k \in {TRACESTATE_PARENT_ID, "other"} |->
               IF k = "other" THEN <<"y">> ELSE <<"o","l","d">>]) }

\* the id generators (random, never zero): the n-th span of the process
\* gets an id no earlier span of the process has
generate_span_id(n) == 43 + 2705 * n

generate_trace_id(n) == 8738 + n

\* the answers Context.getDecisions can give to a should_sample call of the
\* sampler serving this parent; a sampler that does not ask gets none
OracleAnswers(parent) ==
    IF OracleCallsOf(SamplerOfSlot(SlotOf(parent))) > 0
    THEN LiboboeDecisions ELSE {NoLiboboeDecision}

(* ------------------------------- state -------------------------------- *)

\* no hop in progress: nothing configured, nothing received, nothing sent
NoHop ==
    [phase |-> "idle", environ |-> <<>>, propagators |-> <<>>,
     inbound |-> [traceparent |-> <<>>, tracestate |-> <<>>],
     parent |-> INVALID_SPAN_CONTEXT, liboboe |-> NoLiboboeDecision,
     ran |-> <<>>,
     outbound |-> [traceparent |-> <<>>, tracestate |-> <<>>]]

\* no trigger-trace request honored, no response computed
NoTt ==
    [phase |-> "idle", results |-> <<>>, tracestate_entry |-> <<>>,
     response_header |-> <<>>]

\* no codec function applied
NoCodec ==
    [phase |-> "idle", ts |-> <<>>, header |-> <<>>, parsed |-> <<>>,
     limbs |-> <<0, 0, 0, 0>>, flags |-> 0, span_id_hex |-> <<>>,
     flags_hex |-> <<>>]

\* no API call made
NoApi ==
    [phase |-> "idle", configured |-> FALSE, txnames |-> <<>>,
     span |-> <<0, 0>>, last_given |-> "", calls |-> 0,
     rc |-> [type |-> "none", value |-> 0], integer_response |-> FALSE,
     ret |-> [type |-> "none", value |-> 0]]

\* the process environment is not looked at
NoEnviron ==
    [phase |-> "idle",
     before |-> [OTEL_PROPAGATORS |-> <<>>, OTEL_TRACES_EXPORTER |-> "",
                 OTEL_METRICS_EXPORTER |-> "", is_lambda |-> FALSE],
     env |-> [OTEL_PROPAGATORS |-> <<>>, OTEL_TRACES_EXPORTER |-> "",
              OTEL_METRICS_EXPORTER |-> "", is_lambda |-> FALSE]]

\* nothing handed to the exporter
NoReporter ==
    [phase |-> "idle", spans |-> <<>>, reports |-> <<>>, sent |-> 0,
     exports |-> 0]

SideInit ==
    /\ codec = NoCodec
    /\ api = NoApi
    /\ os_environ = NoEnviron
    /\ reporter = NoReporter

NoCall ==
    [kind |-> "none", parent |-> INVALID_SPAN_CONTEXT, parent_decision |-> "none",
     attributes |-> NoneAttributes, slot |-> "none", sampler |-> "none",
     liboboe |-> NoLiboboeDecision, calculated |-> NoneAttributes,
     result |-> [decision |-> DROP, attributes |-> NoneAttributes,
                 trace_state |-> <<>>],
     oracle_calls |-> 0, oracle_arguments |-> NoArguments,
     raised |-> FALSE, caller_after |-> NoneAttributes,
     returned |-> [view_of |-> "none", read_only |-> FALSE]]

NoSpan == [exists |-> FALSE, ctx |-> INVALID_SPAN_CONTEXT, decision |-> "none"]

NoCarrier == [written |-> FALSE, tracestate |-> <<>>, ctx |-> INVALID_SPAN_CONTEXT]

Init ==
    /\ current = NoSpan
    /\ last = NoCall
    /\ carrier = NoCarrier
    /\ nSpans = 0
    /\ oracleCalls = 0
    /\ hop = NoHop
    /\ tt = NoTt
    /\ SideInit

\* mutant: the sampled flag is set whatever the sampler decided
new_span_context_AlwaysSampled(parent, result, n) ==
    [trace_id    |-> IF is_valid(parent) THEN parent.trace_id
                     ELSE generate_trace_id(n),
     span_id     |-> generate_span_id(n),
     trace_flags |-> 1,
     trace_state |-> result.trace_state,
     is_remote   |-> FALSE]

\* mutant: every started span opens a trace of its own
new_span_context_NewTrace(parent, result, n) ==
    [trace_id    |-> generate_trace_id(n),
     span_id     |-> generate_span_id(n),
     trace_flags |-> IF result.decision = RECORD_AND_SAMPLE THEN 1 ELSE 0,
     trace_state |-> result.trace_state,
     is_remote   |-> FALSE]

\* Tracer.start_span: the span context of the n-th started span: the trace
\* id of a valid parent or a new one, a new span id, the sampled flag of the
\* sampler's decision, the sampler's trace state
new_span_context(parent, result, n) ==
    [trace_id    |-> IF is_valid(parent) THEN parent.trace_id
                     ELSE generate_trace_id(n),
     span_id     |-> generate_span_id(n),
     trace_flags |-> IF result.decision = RECORD_AND_SAMPLE THEN 1 ELSE 0,
     trace_state |-> result.trace_state,
     is_remote   |-> FALSE]

\* Tracer.start_span with the given parent span context: the sampler is
\* asked, then the new span's context is built from its result
StartSpan(kind, parent, parent_decision, attributes, liboboe) ==
    LET slot    == SlotOf(parent)
        sampler == SamplerOfSlot(slot)
        result  == ParentBased_should_sample(parent, attributes, liboboe)
        calls   == OracleCallsOf(sampler)
        calculated ==
            IF calls > 0
            THEN calculate_attributes(
                     attributes, liboboe,
                     calculate_trace_state(liboboe, parent), parent)
            ELSE NoneAttributes
        ctx     == new_span_context(parent, result, nSpans)
    IN  /\ nSpans < MaxSpans
        /\ ~carrier.written
        /\ nSpans' = nSpans + 1
        /\ oracleCalls' = oracleCalls + calls
        /\ last' = [kind |-> kind, parent |-> parent,
                    parent_decision |-> parent_decision,
                    attributes |-> attributes, slot |-> slot,
                    sampler |-> sampler, liboboe |-> liboboe,
                    calculated |-> calculated,
                    result |-> result, oracle_calls |-> calls,
                    oracle_arguments |->
                        IF calls > 0 THEN getDecisions_arguments(parent)
                        ELSE NoArguments,
                    raised |-> FALSE,
                    caller_after |-> caller_map_after(attributes, calculated),
                    returned |-> returned_mapping(attributes, calculated)]
        /\ current' = [exists |-> TRUE, ctx |-> ctx,
                       decision |-> result.decision]
        /\ UNCHANGED carrier

\* a span started with no parent, or with a parent context that is invalid
StartRootSpan ==
    \E parent \in InvalidParents, attributes \in CallerAttributes :
        \E liboboe \in OracleAnswers(parent) :
            /\ StartSpan("root", parent, "none", attributes, liboboe)
            /\ UNCHANGED <<hop, tt, side>>

\* a span started under the context extracted from an inbound request
StartRemoteChild ==
    \E parent \in RemoteParents, attributes \in CallerAttributes :
        \E liboboe \in OracleAnswers(parent) :
            /\ StartSpan("remote", parent, "none", attributes, liboboe)
            /\ UNCHANGED <<hop, tt, side>>

\* a span started under the current span of this process
StartLocalChild ==
    /\ current.exists
    /\ \E attributes \in CallerAttributes :
           \E liboboe \in OracleAnswers(current.ctx) :
               /\ StartSpan("local", current.ctx, current.decision,
                            attributes, liboboe)
               /\ UNCHANGED <<hop, tt, side>>

\* Tracer.start_span when the Context.getDecisions call of
\* _SwSampler.should_sample fails: the exception leaves should_sample and
\* start_span, no SamplingResult is built and no span is started
StartSpanOracleFails ==
    \E parent \in FailureParents, attributes \in {NoneAttributes},
       outcome \in OracleFailures :
        LET slot    == SlotOf(parent)
            sampler == SamplerOfSlot(slot)
        IN  /\ nSpans < MaxSpans
            /\ ~carrier.written
            /\ OracleCallsOf(sampler) > 0
            /\ calculate_liboboe_decision(outcome).raised
            /\ nSpans' = nSpans + 1
            /\ oracleCalls' = oracleCalls + OracleCallsOf(sampler)
            /\ last' = [NoCall EXCEPT
                           !.kind = IF is_valid(parent) THEN "remote" ELSE "root",
                           !.parent = parent, !.attributes = attributes,
                           !.slot = slot, !.sampler = sampler,
                           !.liboboe = outcome,
                           !.oracle_calls = OracleCallsOf(sampler),
                           !.oracle_arguments =
                               getDecisions_arguments(parent),
                           !.raised = TRUE, !.caller_after = attributes]
            /\ UNCHANGED <<current, carrier, hop, tt, side>>

\* SolarWindsFormat.inject into the carrier of an outbound request, for the
\* span context found in the given context: the current span's, an
\* extracted remote one, or none; a second inject into the same carrier is
\* for the same context
Inject ==
    \E ctx \in IF carrier.written THEN {carrier.ctx}
               ELSE {current.ctx} \cup RemoteParents :
        /\ carrier' = [written |-> TRUE, tracestate |-> inject_tracestate(ctx),
                       ctx |-> ctx]
        /\ UNCHANGED <<current, last, nSpans, oracleCalls, hop, tt, side>>

\* the outbound request leaves with its carrier; the next one starts empty
Send ==
    /\ carrier.written
    /\ carrier' = NoCarrier
    /\ UNCHANGED <<current, last, nSpans, oracleCalls, hop, tt, side>>

Next ==
    \/ StartRootSpan
    \/ StartRemoteChild
    \/ StartLocalChild
    \/ StartSpanOracleFails
    \/ Inject
    \/ Send

Spec == Init /\ [][Next]_vars

(* ------------------------------- claims ------------------------------- *)

\* the last span creation was served by _SwSampler.should_sample
SwCall == last.kind # "none" /\ last.sampler = SW_SAMPLER /\ ~last.raised

\* "<16 hex>-<2 hex>"
IsSwValue(v) ==
    /\ Len(v) = 19
    /\ IsHexString(SubSeq(v, 1, 16), 16)
    /\ v[17] = "-"
    /\ IsHexString(SubSeq(v, 18, 19), 2)

\* the flags the oracle's do_sample stands for
FlagsOf(liboboe) == IF liboboe.do_sample # 0 THEN <<"0","1">> ELSE <<"0","0">>

\* the Decision the oracle's pair stands for
DecisionOf(liboboe) ==
    IF liboboe.do_sample # 0 THEN RECORD_AND_SAMPLE
    ELSE IF liboboe.do_metrics # 0 THEN RECORD_ONLY ELSE DROP

\* C1: for a valid remote parent whose tracestate holds only foreign
\* members, the trace state _SwSampler.should_sample returns serializes as
\* sw=<value> followed by every foreign member of the parent, in order.
C1_ForeignMembersKept ==
    ( /\ SwCall
      /\ is_valid(last.parent) /\ last.parent.is_remote
      /\ last.parent.trace_state # <<>>
      /\ ~HasKey(last.parent.trace_state, SW) )
    => LET ts == last.result.trace_state
       IN  /\ Len(ts) = Len(last.parent.trace_state) + 1
           /\ ts[1][1] = SW
           /\ Tail(ts) = last.parent.trace_state
           /\ to_header(ts) = SW \o <<"=">> \o ts[1][2] \o <<",">>
                                \o to_header(last.parent.trace_state)

\* C2: for a valid parent whose tracestate holds an sw member at any
\* position, the returned trace state has sw first with the newly computed
\* value, holds exactly one sw member, and keeps every other member with
\* its value in the parent's relative order.
C2_SwUpdatedAndMovedToFront ==
    ( /\ SwCall
      /\ is_valid(last.parent)
      /\ HasKey(last.parent.trace_state, SW) )
    => LET ts == last.result.trace_state
       IN  /\ Len(ts) >= 1
           /\ ts[1] = <<SW, span_id_from_int(last.parent.span_id)
                            \o <<"-">> \o FlagsOf(last.liboboe)>>
           /\ Cardinality({ i \in 1..Len(ts) : ts[i][1] = SW }) = 1
           /\ Without(ts, SW) = Without(last.parent.trace_state, SW)

C2_Witness ==
    /\ SwCall
    /\ is_valid(last.parent)
    /\ Len(last.parent.trace_state) = 3
    /\ last.parent.trace_state[2][1] = SW
    /\ last.result.trace_state[1][1] = SW
    /\ last.result.trace_state[1][2] # UpstreamSw
    /\ Len(last.result.trace_state) = 3

\* C3: inject writes a tracestate header whose first member is
\* sw=<16-hex span id>-<2-hex flags> of the injected span context, followed
\* by the context's non-sw members with their values in their order,
\* whether its trace state is empty, holds no sw, or holds sw.
C3_InjectPutsSwFirst ==
    carrier.written
    => LET ctx == carrier.ctx
           v   == ZeroPad(HexOf(ctx.span_id), 16) \o <<"-">>
                  \o ZeroPad(HexOf(ctx.trace_flags), 2)
       IN  /\ IsSwValue(v)
           /\ from_header(<<carrier.tracestate>>)
                = << <<SW, v>> >> \o Without(ctx.trace_state, SW)

\* C4: for an invalid parent (root span) and every oracle verdict, the
\* returned trace state has exactly one member, keyed sw, whose value is
\* <16 lowercase hex>-<2 lowercase hex>.
C4_RootTraceStateIsSwOnly ==
    (SwCall /\ ~is_valid(last.parent))
    => LET ts == last.result.trace_state
       IN  /\ Len(ts) = 1
           /\ ts[1][1] = SW
           /\ IsSwValue(ts[1][2])

C4_Witness ==
    /\ SwCall
    /\ ~is_valid(last.parent)
    /\ last.parent.trace_state # <<>>
    /\ last.liboboe.do_sample = 1
    /\ to_header(last.result.trace_state)
         = <<"s","w","=","0","0","0","0","0","0","0","0","0","0","0","0",
             "1","0","0","0","-","0","1">>

\* C5: the decision of the SamplingResult is RECORD_AND_SAMPLE when
\* do_sample is set whatever do_metrics is, RECORD_ONLY when only do_metrics
\* is set, DROP when neither is.
C5_DecisionPriority ==
    SwCall
    => /\ last.result.decision = DecisionOf(last.liboboe)
       /\ otel_decision_from_liboboe(last.liboboe) = last.result.decision

C5_Witness ==
    /\ SwCall
    /\ last.liboboe.do_sample = 1
    /\ last.liboboe.do_metrics = 0
    /\ last.result.decision = RECORD_AND_SAMPLE

\* C6: for a valid remote parent the engine (_SwSampler, one oracle call)
\* runs whether the parent's sampled flag is set or clear, and the decision
\* is the oracle's verdict; the same engine runs for no or an invalid parent.
C6_RemoteAndRootRunTheEngine ==
    (last.kind \in {"remote", "root"} /\ ~last.raised)
    => /\ last.sampler = SW_SAMPLER
       /\ last.oracle_calls = 1
       /\ last.liboboe \in LiboboeDecisions
       /\ last.result.decision = DecisionOf(last.liboboe)

C6_Witness ==
    /\ last.kind = "remote"
    /\ ~sampled(last.parent)
    /\ last.result.decision = RECORD_AND_SAMPLE
    /\ oracleCalls = 2

\* C7: a span creation under a valid local parent makes no call to the
\* decision oracle, in any sequence of span creations.
C7_LocalChildNeverAsksOracle ==
    [][(nSpans' = nSpans + 1 /\ last'.kind = "local")
        => oracleCalls' = oracleCalls]_vars

C7_Witness ==
    /\ last.kind = "local"
    /\ nSpans = 2
    /\ oracleCalls = 1
    /\ last.oracle_calls = 0

\* C8 as stated: under a valid local parent the decision equals the
\* Decision the parent span was given, for each of the three decisions,
\* and the trace state is the parent's.
C8_ChildCopiesParentDecision ==
    (last.kind = "local")
    => /\ last.result.decision = last.parent_decision
       /\ last.result.trace_state = last.parent.trace_state

\* C8 amended: under a valid local parent the decision is RECORD_AND_SAMPLE
\* when the parent's was RECORD_AND_SAMPLE and DROP when the parent's was
\* DROP or RECORD_ONLY; the trace state is the parent's, unchanged.
C8_ChildFollowsParentSampledFlag ==
    (last.kind = "local")
    => /\ last.result.decision =
              (IF last.parent_decision = RECORD_AND_SAMPLE
               THEN RECORD_AND_SAMPLE ELSE DROP)
       /\ last.result.trace_state = last.parent.trace_state
       /\ current.ctx.trace_state = last.parent.trace_state

C8_Witness ==
    /\ last.kind = "local"
    /\ last.parent_decision = RECORD_ONLY
    /\ last.result.decision = DROP
    /\ Len(last.result.trace_state) = 3

\* C9: whenever the decision of _SwSampler.should_sample is DROP, no
\* attributes are returned, by calculate_attributes and by should_sample,
\* whatever the parent and the caller's attributes.
C9_DropCarriesNoAttributes ==
    (SwCall /\ last.result.decision = DROP)
    => /\ last.calculated = NoneAttributes
       /\ last.result.attributes = NoneAttributes

C9_Witness ==
    /\ SwCall
    /\ last.result.decision = DROP
    /\ is_valid(last.parent)
    /\ last.parent.trace_state # <<>>
    /\ Truthy(last.attributes)
    /\ last.result.attributes = NoneAttributes

\* C10: for an invalid parent, or a valid parent whose tracestate is empty,
\* _SwSampler.should_sample returns no attributes, whatever the oracle says
\* and whatever attributes the caller supplied.
C10_NoUpstreamStateNoAttributes ==
    (SwCall /\ (~is_valid(last.parent) \/ last.parent.trace_state = <<>>))
    => last.result.attributes = NoneAttributes

\* the sw value the engine computes for the last call: the parent's span id
\* and the flags of the oracle's do_sample
ExpectedSw ==
    span_id_from_int(last.parent.span_id) \o <<"-">> \o FlagsOf(last.liboboe)

\* C11: whenever calculate_attributes returns attributes, sw.w3c.tracestate
\* parses to a trace state whose first member is sw=<parent span id>-<new
\* flags>; it is the serialized new trace state when the caller supplied no
\* such attribute, and otherwise the caller's value with sw updated or
\* inserted in front and the foreign members kept in their order.
C11_W3cTracestateAttribute ==
    (SwCall /\ ~last.calculated.none)
    => LET attr     == last.calculated.kv[W3C_TRACESTATE]
           parsed   == from_header(<<attr>>)
           supplied == DictGet(last.attributes.kv, W3C_TRACESTATE)
       IN  /\ parsed # <<>>
           /\ parsed[1] = <<SW, ExpectedSw>>
           /\ IF supplied = <<>>
              THEN attr = to_header(last.result.trace_state)
              ELSE parsed = << <<SW, ExpectedSw>> >>
                               \o Without(from_header(<<supplied>>), SW)

\* C12: whenever calculate_attributes returns attributes,
\* sw.tracestate_parent_id is the parent's span id as 16 lowercase hex
\* characters, every other attribute of the caller is there with the same
\* key and value, and no key other than the two sw keys is added.
C12_ParentIdSetOthersKept ==
    (SwCall /\ ~last.calculated.none)
    => LET kv     == last.calculated.kv
           caller == last.attributes.kv
           swKeys == {TRACESTATE_PARENT_ID, W3C_TRACESTATE}
       IN  /\ TRACESTATE_PARENT_ID \in DOMAIN kv
           /\ kv[TRACESTATE_PARENT_ID] = span_id_from_int(last.parent.span_id)
           /\ IsHexString(kv[TRACESTATE_PARENT_ID], 16)
           /\ DOMAIN kv = DOMAIN caller \cup swKeys
           /\ \A k \in DOMAIN caller \ swKeys : kv[k] = caller[k]

C12_Witness ==
    /\ SwCall
    /\ ~last.calculated.none
    /\ DictGet(last.attributes.kv, TRACESTATE_PARENT_ID) = <<"o","l","d">>
    /\ last.calculated.kv[TRACESTATE_PARENT_ID] # <<"o","l","d">>
    /\ last.calculated.kv["other"] = <<"y">>

\* C13: calculate_attributes leaves the mapping the caller supplied as it
\* was, and the attributes it returns are a read-only mapping that is a
\* separate object, not the caller's.
C13_CallerMapUntouched ==
    SwCall
    => /\ last.caller_after = last.attributes
       /\ ~last.calculated.none
            => /\ last.returned.view_of # "attributes"
               /\ last.returned.read_only

C13_Witness ==
    /\ SwCall
    /\ Truthy(last.attributes)
    /\ ~last.calculated.none
    /\ last.calculated # last.attributes
    /\ last.caller_after = last.attributes
    /\ last.returned = [view_of |-> "new_attributes", read_only |-> TRUE]

\* C14: when the Context.getDecisions call fails, by raising or by
\* returning a malformed record, should_sample does not fail: it returns
\* the decision DROP and no attributes.
C14_OracleFailureDrops ==
    (last.kind # "none" /\ last.liboboe \in OracleFailures)
    => /\ ~last.raised
       /\ last.result.decision = DROP
       /\ last.result.attributes = NoneAttributes

(* --------------------- one hop: extract, sample, inject ---------------- *)

\* a header of a carrier is the list of its values: <<>> when the header is
\* absent (getter.get gives None), <<value>> when it is there
NoHeaders == [traceparent |-> <<>>, tracestate |-> <<>>]

RECURSIVE HexToInt(_)
\* int(s, 16) of a string of lowercase hex digits
HexToInt(s) ==
    IF s = <<>> THEN 0
    ELSE 16 * HexToInt(SubSeq(s, 1, Len(s) - 1))
         + (CHOOSE d \in 0..15 : HexDigits[d + 1] = s[Len(s)])

IsBlank(s) == \A i \in 1..Len(s) : s[i] \in {" ", "\t"}

RECURSIVE StripLeadingBlank(_)
\* the "^[ \t]*" prefix of _TRACEPARENT_HEADER_FORMAT
StripLeadingBlank(s) ==
    IF s # <<>> /\ s[1] \in {" ", "\t"} THEN StripLeadingBlank(Tail(s)) ELSE s

\* _TRACEPARENT_HEADER_FORMAT_RE matched against a header value: the four
\* hex groups of fixed length joined by "-", then nothing but blanks, or a
\* fifth group that starts with "-"
MatchTraceparent(header) ==
    LET s    == StripLeadingBlank(header)
        rest == IF Len(s) > 55 THEN SubSeq(s, 56, Len(s)) ELSE <<>>
        ok   == /\ Len(s) >= 55
                /\ IsHexString(SubSeq(s, 1, 2), 2)
                /\ s[3] = "-"
                /\ IsHexString(SubSeq(s, 4, 35), 32)
                /\ s[36] = "-"
                /\ IsHexString(SubSeq(s, 37, 52), 16)
                /\ s[53] = "-"
                /\ IsHexString(SubSeq(s, 54, 55), 2)
                /\ (IsBlank(rest) \/ rest[1] = "-")
    IN  IF ok
        THEN [ok |-> TRUE, version |-> SubSeq(s, 1, 2),
              trace_id |-> SubSeq(s, 4, 35), span_id |-> SubSeq(s, 37, 52),
              trace_flags |-> SubSeq(s, 54, 55),
              trailing |-> IF rest # <<>> /\ rest[1] = "-" THEN rest ELSE <<>>]
        ELSE [ok |-> FALSE, version |-> <<>>, trace_id |-> <<>>,
              span_id |-> <<>>, trace_flags |-> <<>>, trailing |-> <<>>]

\* mutant: a tracestate that does not parse makes the whole extraction
\* give up, as a traceparent that does not match does
TraceContext_extract_AllOrNothing(in_carrier) ==
    IF in_carrier.traceparent = <<>> THEN INVALID_SPAN_CONTEXT
    ELSE LET m == MatchTraceparent(in_carrier.traceparent[1])
         IN  IF ~m.ok THEN INVALID_SPAN_CONTEXT
             ELSE IF m.trace_id = ZeroPad(<<>>, 32) \/ m.span_id = ZeroPad(<<>>, 16)
             THEN INVALID_SPAN_CONTEXT
             ELSE IF m.version = <<"0","0">> /\ m.trailing # <<>>
             THEN INVALID_SPAN_CONTEXT
             ELSE IF m.version = <<"f","f">>
             THEN INVALID_SPAN_CONTEXT
             ELSE IF in_carrier.tracestate # <<>>
                     /\ from_header(in_carrier.tracestate) = <<>>
             THEN INVALID_SPAN_CONTEXT
             ELSE [trace_id    |-> HexToInt(m.trace_id),
                   span_id     |-> HexToInt(m.span_id),
                   trace_flags |-> HexToInt(m.trace_flags),
                   trace_state |-> from_header(in_carrier.tracestate),
                   is_remote   |-> TRUE]

\* TraceContextTextMapPropagator.extract: the span context put into the
\* context, INVALID_SPAN_CONTEXT when the context is returned as it came
TraceContext_extract(in_carrier) ==
    IF in_carrier.traceparent = <<>> THEN INVALID_SPAN_CONTEXT
    ELSE LET m == MatchTraceparent(in_carrier.traceparent[1])
         IN  IF ~m.ok THEN INVALID_SPAN_CONTEXT
             ELSE IF m.trace_id = ZeroPad(<<>>, 32) \/ m.span_id = ZeroPad(<<>>, 16)
             THEN INVALID_SPAN_CONTEXT
             ELSE IF m.version = <<"0","0">> /\ m.trailing # <<>>
             THEN INVALID_SPAN_CONTEXT
             ELSE IF m.version = <<"f","f">>
             THEN INVALID_SPAN_CONTEXT
             ELSE [trace_id    |-> HexToInt(m.trace_id),
                   span_id     |-> HexToInt(m.span_id),
                   trace_flags |-> HexToInt(m.trace_flags),
                   trace_state |-> from_header(in_carrier.tracestate),
                   is_remote   |-> TRUE]

\* SolarWindsFormat.extract: "return context"
SolarWindsFormat_extract(in_carrier, context) == context

\* the names under which propagators are registered
TRACECONTEXT == "tracecontext"
BAGGAGE == "baggage"
SOLARWINDS_PROPAGATOR == "solarwinds_propagator"

RECURSIVE Composite_extract(_, _, _)
\* CompositePropagator.extract: every propagator in list order, each handed
\* the context the one before it returned
Composite_extract(propagators, in_carrier, context) ==
    IF propagators = <<>> THEN context
    ELSE Composite_extract(
             Tail(propagators), in_carrier,
             CASE propagators[1] = TRACECONTEXT ->
                    IF is_valid(TraceContext_extract(in_carrier))
                    THEN TraceContext_extract(in_carrier) ELSE context
               [] propagators[1] = SOLARWINDS_PROPAGATOR ->
                    SolarWindsFormat_extract(in_carrier, context)
               [] OTHER -> context)

\* format_trace_id: format(trace_id, "032x")
format_trace_id(trace_id) == ZeroPad(HexOf(trace_id), 32)

\* TraceContextTextMapPropagator.inject: traceparent of the span context,
\* and its trace state as tracestate when it has members; nothing for an
\* invalid span context
TraceContext_inject(span_context, headers) ==
    IF span_context = INVALID_SPAN_CONTEXT THEN headers
    ELSE LET traceparent ==
                 <<"0","0","-">> \o format_trace_id(span_context.trace_id)
                 \o <<"-">> \o ZeroPad(HexOf(span_context.span_id), 16)
                 \o <<"-">> \o ZeroPad(HexOf(span_context.trace_flags), 2)
         IN  [traceparent |-> <<traceparent>>,
              tracestate  |-> IF span_context.trace_state # <<>>
                              THEN <<to_header(span_context.trace_state)>>
                              ELSE headers.tracestate]

\* mutant: inject replaces the carrier by one that holds tracestate only
SolarWindsFormat_inject_FreshCarrier(span_context, headers) ==
    [traceparent |-> <<>>,
     tracestate  |-> <<inject_tracestate(span_context)>>]

\* SolarWindsFormat.inject: setter.set(carrier, "tracestate", ...)
SolarWindsFormat_inject(span_context, headers) ==
    [headers EXCEPT !.tracestate = <<inject_tracestate(span_context)>>]

\* the inject of the propagator registered under a name; baggage and any
\* other propagator write neither traceparent nor tracestate
Propagator_inject(name, span_context, headers) ==
    CASE name = TRACECONTEXT -> TraceContext_inject(span_context, headers)
      [] name = SOLARWINDS_PROPAGATOR ->
             SolarWindsFormat_inject(span_context, headers)
      [] OTHER -> headers

\* the value of OTEL_PROPAGATORS as the list of its comma-separated names,
\* <<>> when the variable is not set: not set, and set by the user
Environments ==
    { <<>>, <<TRACECONTEXT, SOLARWINDS_PROPAGATOR, "foobar">> }

\* mutant: the default puts solarwinds_propagator in front
distro_configure_SwFirst(environ) ==
    IF environ = <<>> THEN <<SOLARWINDS_PROPAGATOR, TRACECONTEXT, BAGGAGE>>
    ELSE environ

\* SolarWindsDistro._configure: OTEL_PROPAGATORS is given its default
\* unless the environment already sets it
distro_configure(environ) ==
    IF environ = <<>> THEN <<TRACECONTEXT, BAGGAGE, SOLARWINDS_PROPAGATOR>>
    ELSE environ

\* the traceparent of the upstream span: trace id 0x1111, span id 0x1000
UpstreamTraceparent(flags) ==
    <<"0","0","-">> \o format_trace_id(4369) \o <<"-">>
    \o format_span_id(4096) \o <<"-">> \o format_trace_flags(flags)

\* s with its i-th character replaced by c
WithChar(s, i, c) == [s EXCEPT ![i] = c]

\* traceparent values that do not pass the codec: a trace id of 31
\* characters, a character outside [0-9a-f] in the trace id and in the span
\* id, an all-zero trace id, an all-zero span id, version 00 with a fifth
\* group
MalformedTraceparents ==
    { <<"0","0","-">> \o Tail(format_trace_id(4369)) \o <<"-">>
          \o format_span_id(4096) \o <<"-","0","1">>,
      WithChar(UpstreamTraceparent(1), 4, "A"),
      WithChar(UpstreamTraceparent(1), 40, "g"),
      <<"0","0","-">> \o ZeroPad(<<>>, 32) \o <<"-">>
          \o format_span_id(4096) \o <<"-","0","1">>,
      <<"0","0","-">> \o format_trace_id(4369) \o <<"-">>
          \o ZeroPad(<<>>, 16) \o <<"-","0","1">>,
      UpstreamTraceparent(1) \o <<"-","x">> }

\* tracestate values that TraceState.from_header rejects: a member with no
\* "=", and a key given twice
MalformedTracestates ==
    { <<"v","1">>, <<"v","1","=","f",",","v","1","=","b">> }

\* tracestate values that parse: sw alone, a foreign member alone, both
WellFormedTracestates ==
    { to_header(<< <<SW, UpstreamSw>> >>),
      to_header(<< <<V1, <<"f">>>> >>),
      to_header(<< <<SW, UpstreamSw>>, <<V1, <<"f">>>> >>) }

\* the carriers of inbound requests
InboundCarriers ==
    { [traceparent |-> <<UpstreamTraceparent(fl)>>, tracestate |-> ts] :
        fl \in {0, 1},
        ts \in {<<>>} \cup { <<t>> : t \in WellFormedTracestates
                                          \cup MalformedTracestates } }
    \cup { [traceparent |-> <<tp>>, tracestate |-> ts] :
             tp \in MalformedTraceparents,
             ts \in { <<>>, <<to_header(<< <<SW, UpstreamSw>> >>)>> } }
    \cup { [traceparent |-> <<>>, tracestate |-> ts] :
             ts \in { <<>>, <<to_header(<< <<SW, UpstreamSw>> >>)>> } }

\* the attributes the server instrumentation hands to start_span
HopAttributes == { NoneAttributes, Attrs([k \in {"other"} |-> <<"x">>]) }

HopInit ==
    /\ current = NoSpan
    /\ last = NoCall
    /\ carrier = NoCarrier
    /\ nSpans = 0
    /\ oracleCalls = 0
    /\ hop \in { [NoHop EXCEPT !.phase = "start", !.environ = e] :
                   e \in Environments }
    /\ tt = NoTt
    /\ SideInit

\* SolarWindsDistro().configure(), then the global composite propagator is
\* built from the names in OTEL_PROPAGATORS
Configure ==
    /\ hop.phase = "start"
    /\ hop' = [hop EXCEPT !.phase = "ready",
                          !.environ = distro_configure(hop.environ),
                          !.propagators = distro_configure(hop.environ)]
    /\ UNCHANGED <<current, last, carrier, nSpans, oracleCalls, tt, side>>

\* an inbound request: the composite propagator extracts the parent from
\* its carrier and the server span is started under it
ReceiveRequest ==
    /\ hop.phase = "ready"
    /\ \E in_carrier \in InboundCarriers, attributes \in HopAttributes :
         LET parent == Composite_extract(hop.propagators, in_carrier,
                                         INVALID_SPAN_CONTEXT)
         IN  \E liboboe \in OracleAnswers(parent) :
                /\ StartSpan(IF is_valid(parent) THEN "remote" ELSE "root",
                             parent, "none", attributes, liboboe)
                /\ hop' = [hop EXCEPT !.phase = "serving",
                                      !.inbound = in_carrier,
                                      !.parent = parent,
                                      !.liboboe = liboboe]
                /\ UNCHANGED <<tt, side>>

\* a span started under the current span while the request is served
HopLocalChild ==
    /\ hop.phase = "serving"
    /\ hop.ran = <<>>
    /\ StartLocalChild

\* CompositePropagator.inject on an outbound call made under the current
\* span: the next propagator of the list writes into the outbound carrier
InjectStep ==
    /\ hop.phase = "serving"
    /\ Len(hop.ran) < Len(hop.propagators)
    /\ LET name == hop.propagators[Len(hop.ran) + 1]
       IN  hop' = [hop EXCEPT
                     !.ran = Append(hop.ran, name),
                     !.outbound = Propagator_inject(name, current.ctx,
                                                    hop.outbound)]
    /\ UNCHANGED <<current, last, carrier, nSpans, oracleCalls, tt, side>>

\* the outbound request leaves once every propagator has run
SendRequest ==
    /\ hop.phase = "serving"
    /\ hop.ran # <<>>
    /\ Len(hop.ran) = Len(hop.propagators)
    /\ hop' = [hop EXCEPT !.ran = <<>>, !.outbound = NoHeaders]
    /\ UNCHANGED <<current, last, carrier, nSpans, oracleCalls, tt, side>>

HopNext ==
    \/ Configure
    \/ ReceiveRequest
    \/ HopLocalChild
    \/ InjectStep
    \/ SendRequest

HopSpec == HopInit /\ [][HopNext]_vars

\* the outbound carrier is complete: every propagator of the pipeline ran
OutboundDone ==
    /\ hop.phase = "serving"
    /\ hop.ran # <<>>
    /\ Len(hop.ran) = Len(hop.propagators)

\* the last span creation is the one of the inbound request
EntryCall == hop.phase = "serving" /\ last.kind \in {"root", "remote"}

\* the inbound traceparent is one the grammar rejects
InboundTraceparentMalformed ==
    /\ hop.inbound.traceparent # <<>>
    /\ hop.inbound.traceparent[1] \in MalformedTraceparents

\* the inbound tracestate is one that does not parse
InboundTracestateMalformed ==
    /\ hop.inbound.tracestate # <<>>
    /\ hop.inbound.tracestate[1] \in MalformedTracestates

\* the root policy ran with no parent and made a new one-member sw state
HandledAsNoParent ==
    /\ ~last.raised
    /\ ~is_valid(hop.parent)
    /\ last.slot = "root"
    /\ last.sampler = SW_SAMPLER
    /\ current.ctx.trace_id # 4369
    /\ last.result.trace_state =
           << <<SW, ZeroPad(<<>>, 16) \o <<"-">> \o FlagsOf(last.liboboe)>> >>

\* C15 as stated: an inbound carrier whose traceparent the grammar rejects,
\* or whose tracestate is malformed, raises nothing and is handled as a
\* request with no parent: root policy, a new one-member sw trace state.
C15_MalformedInboundIsNoParent ==
    (EntryCall /\ (InboundTraceparentMalformed \/ InboundTracestateMalformed))
    => HandledAsNoParent

\* C15 amended: a carrier whose traceparent the grammar rejects raises
\* nothing and is handled as a request with no parent; a carrier with a
\* valid traceparent and a malformed tracestate raises nothing and is
\* handled as a remote parent with an empty trace state: the engine runs
\* in a remote-parent slot, the trace id is the inbound one, and the new
\* trace state is the one member sw=<inbound span id>-<new flags>.
C15_MalformedInboundHandled ==
    EntryCall
    => /\ InboundTraceparentMalformed => HandledAsNoParent
       /\ (InboundTracestateMalformed /\ ~InboundTraceparentMalformed
             /\ hop.inbound.traceparent # <<>>)
            => /\ ~last.raised
               /\ is_valid(hop.parent)
               /\ hop.parent.trace_state = <<>>
               /\ last.slot \in {"remote_parent_sampled",
                                 "remote_parent_not_sampled"}
               /\ last.sampler = SW_SAMPLER
               /\ current.ctx.trace_id = 4369
               /\ last.result.trace_state =
                      << <<SW, span_id_from_int(4096) \o <<"-">>
                                 \o FlagsOf(last.liboboe)>> >>

C15_Witness ==
    /\ EntryCall
    /\ InboundTracestateMalformed
    /\ hop.inbound.traceparent = <<UpstreamTraceparent(0)>>
    /\ last.slot = "remote_parent_not_sampled"
    /\ last.liboboe.do_sample = 1
    /\ Len(current.ctx.trace_state) = 1

\* the flags field of the outbound traceparent
OutboundTraceparentFlags == SubSeq(hop.outbound.traceparent[1], 54, 55)

\* the span id field of the outbound traceparent
OutboundTraceparentSpanId == SubSeq(hop.outbound.traceparent[1], 37, 52)

\* the trace id field of the outbound traceparent
OutboundTraceparentTraceId == SubSeq(hop.outbound.traceparent[1], 4, 35)

\* the value of the sw member of the outbound tracestate
OutboundSw == TraceState_get(from_header(hop.outbound.tracestate), SW)

\* C16: on a completed outbound carrier of a hop, the flags field of the
\* traceparent and the flags of the sw member of the tracestate are equal,
\* 01 when the oracle answered do_sample=1 for the inbound request and 00
\* when it answered do_sample=0, with or without inbound headers.
C16_OutboundFlagsAgree ==
    OutboundDone
    => /\ hop.outbound.traceparent # <<>>
       /\ hop.outbound.tracestate # <<>>
       /\ Len(OutboundSw) = 19
       /\ OutboundTraceparentFlags = SubSeq(OutboundSw, 18, 19)
       /\ OutboundTraceparentFlags = FlagsOf(hop.liboboe)

C16_Witness ==
    /\ OutboundDone
    /\ hop.inbound.traceparent = <<UpstreamTraceparent(1)>>
    /\ hop.liboboe.do_sample = 0
    /\ hop.liboboe.do_metrics = 1
    /\ last.kind = "local"
    /\ OutboundTraceparentFlags = <<"0","0">>
    /\ SubSeq(OutboundSw, 18, 19) = <<"0","0">>

\* the inbound request carried a traceparent the codec accepts
InboundTraceparentValid ==
    /\ hop.inbound.traceparent # <<>>
    /\ hop.inbound.traceparent[1] \in {UpstreamTraceparent(0),
                                       UpstreamTraceparent(1)}

\* C17: when the inbound request carried a valid traceparent, a completed
\* outbound traceparent carries the inbound trace id and a span id that is
\* not the inbound span id, whatever the oracle answered.
C17_TraceIdKeptSpanIdNew ==
    (OutboundDone /\ InboundTraceparentValid)
    => /\ hop.outbound.traceparent # <<>>
       /\ OutboundTraceparentTraceId = SubSeq(hop.inbound.traceparent[1], 4, 35)
       /\ OutboundTraceparentSpanId # SubSeq(hop.inbound.traceparent[1], 37, 52)

C17_Witness ==
    /\ OutboundDone
    /\ InboundTraceparentValid
    /\ hop.liboboe.do_sample = 0
    /\ hop.liboboe.do_metrics = 0
    /\ current.decision = DROP
    /\ OutboundTraceparentTraceId = format_trace_id(4369)

\* sub occurs in s as a run of consecutive characters
Contains(s, sub) ==
    \E i \in 1..(Len(s) - Len(sub) + 1) : SubSeq(s, i, i + Len(sub) - 1) = sub

\* C18: on a completed outbound carrier the span id inside the sw member
\* of the tracestate is the span id of the traceparent, the current
\* span's, and the span id of the inbound parent, which the sampler had
\* put into sw, occurs nowhere in the outbound tracestate.
C18_SwCarriesCurrentSpanId ==
    OutboundDone
    => /\ hop.outbound.traceparent # <<>>
       /\ hop.outbound.tracestate # <<>>
       /\ Len(OutboundSw) = 19
       /\ SubSeq(OutboundSw, 1, 16) = OutboundTraceparentSpanId
       /\ OutboundTraceparentSpanId = ZeroPad(HexOf(current.ctx.span_id), 16)
       /\ is_valid(hop.parent)
            => ~Contains(hop.outbound.tracestate[1],
                         SubSeq(hop.inbound.traceparent[1], 37, 52))

C18_Witness ==
    /\ OutboundDone
    /\ is_valid(hop.parent)
    /\ HasKey(hop.parent.trace_state, SW)
    /\ TraceState_get(current.ctx.trace_state, SW)
           = span_id_from_int(hop.parent.span_id) \o <<"-">>
               \o FlagsOf(hop.liboboe)
    /\ SubSeq(OutboundSw, 1, 16) = ZeroPad(HexOf(current.ctx.span_id), 16)

\* in a list of propagator names, tracecontext stands before
\* solarwinds_propagator
TracecontextBeforeSw(names) ==
    \E i, j \in 1..Len(names) :
        /\ i < j
        /\ names[i] = TRACECONTEXT
        /\ names[j] = SOLARWINDS_PROPAGATOR

MaxIgnoredLen == 3

RECURSIVE StringsUpTo(_, _)
\* the strings over an alphabet of length 1..n
StringsUpTo(alphabet, n) ==
    IF n = 0 THEN {}
    ELSE LET shorter == StringsUpTo(alphabet, n - 1)
         IN  { <<c>> : c \in alphabet }
             \cup shorter
             \cup { Append(w, c) : w \in shorter, c \in alphabet }

AUTH == <<"a","u","t","h">>
TRIGGER_TRACE == <<"t","r","i","g","g","e","r","-","t","r","a","c","e">>
IGNORED == <<"i","g","n","o","r","e","d">>

\* the results of an honored signed trigger-trace request, as the ordered
\* list of (key, value): auth, trigger-trace, and ignored when the request
\* carried an option key that is not known
TriggerTraceResults ==
    { << <<AUTH, <<"o","k">>>>, <<TRIGGER_TRACE, t>> >> \o ign :
        t   \in { <<"o","k">>, <<"r","a","t","e","-","e","x","c","e","e","d","e","d">> },
        ign \in { <<>> } \cup
                { << <<IGNORED, k>> >> :
                    k \in StringsUpTo({"f","o","b"}, MaxIgnoredLen) } }

RECURSIVE JoinResults(_, _)
\* ";".join(key + delimiter + value)
JoinResults(results, delimiter) ==
    IF results = <<>> THEN <<>>
    ELSE results[1][1] \o delimiter \o results[1][2]
         \o (IF Len(results) = 1 THEN <<>>
             ELSE <<";">> \o JoinResults(Tail(results), delimiter))

\* mutant: the response header leaves the ignored keys out
response_header_NoIgnored(results) ==
    JoinResults(SelectSeq(results, LAMBDA r : r[1] # IGNORED), <<"=">>)

\* the value of the xtrace_options_response tracestate entry
tracestate_entry(results) == JoinResults(results, <<"#","#","#","#">>)

\* the value of the x-trace-options-response response header
response_header(results) == JoinResults(results, <<"=">>)

RECURSIVE ReplaceAll(_, _, _)
\* s.replace(old, new)
ReplaceAll(s, old, new) ==
    IF Len(s) < Len(old) THEN s
    ELSE IF SubSeq(s, 1, Len(old)) = old
    THEN new \o ReplaceAll(SubSeq(s, Len(old) + 1, Len(s)), old, new)
    ELSE <<s[1]>> \o ReplaceAll(Tail(s), old, new)

TtInit ==
    /\ current = NoSpan
    /\ last = NoCall
    /\ carrier = NoCarrier
    /\ nSpans = 0
    /\ oracleCalls = 0
    /\ hop = NoHop
    /\ tt \in { [NoTt EXCEPT !.phase = "honored", !.results = r] :
                  r \in TriggerTraceResults }
    /\ SideInit

\* the sampler appends the xtrace_options_response entry to the outgoing
\* tracestate
AppendTracestateEntry ==
    /\ tt.phase = "honored"
    /\ tt' = [tt EXCEPT !.phase = "in_tracestate",
                        !.tracestate_entry = tracestate_entry(tt.results)]
    /\ UNCHANGED <<current, last, carrier, nSpans, oracleCalls, hop, side>>

\* the response propagator sets the x-trace-options-response header
SetResponseHeader ==
    /\ tt.phase = "in_tracestate"
    /\ tt' = [tt EXCEPT !.phase = "responded",
                        !.response_header = response_header(tt.results)]
    /\ UNCHANGED <<current, last, carrier, nSpans, oracleCalls, hop, side>>

TtNext == AppendTracestateEntry \/ SetResponseHeader

TtSpec == TtInit /\ [][TtNext]_vars

MaxMembers == 3

\* the list-members trace states are built from: the upstream sw member
\* and foreign members, two of them under the same key
CodecMembers ==
    { <<SW, UpstreamSw>>, <<V1, <<"f">>>>, <<V1, <<"b">>>>, <<V2, <<"b">>>> }

\* the TraceStates with unique keys and no malformed member, of up to
\* MaxMembers members
WellFormedTraceStates ==
    { ts \in UNION { [1..n -> CodecMembers] : n \in 0..MaxMembers } :
        \A i, j \in 1..Len(ts) : i # j => ts[i][1] # ts[j][1] }

\* a span id of 64 bits as its four 16-bit limbs, most significant first
LimbValues == {0, 1, 255, 4096, 65535}

SpanIdLimbs == [1..4 -> LimbValues]

TraceFlagValues == {0, 1, 15, 16, 128, 255}

RECURSIVE HexOfLimbs(_)
\* the digits of format(n, "x") for n given by its 16-bit limbs: the digits
\* of the first limb that is not zero, then four digits for each limb after
\* it
HexOfLimbs(limbs) ==
    IF Len(limbs) = 1 THEN HexOf(limbs[1])
    ELSE IF limbs[1] = 0 THEN HexOfLimbs(Tail(limbs))
    ELSE HexOf(limbs[1])
         \o ZeroPad(HexOf(limbs[2]), 4)
         \o (IF Len(limbs) > 2 THEN ZeroPad(HexOf(limbs[3]), 4) ELSE <<>>)
         \o (IF Len(limbs) > 3 THEN ZeroPad(HexOf(limbs[4]), 4) ELSE <<>>)

\* mutant: format(span_id, "08x")
format_span_id_limbs_Width8(limbs) == ZeroPad(HexOfLimbs(limbs), 8)

\* SolarWindsFormat.format_span_id on a span id given by its limbs:
\* format(span_id, "016x")
format_span_id_limbs(limbs) == ZeroPad(HexOfLimbs(limbs), 16)

CodecInit ==
    /\ current = NoSpan
    /\ last = NoCall
    /\ carrier = NoCarrier
    /\ nSpans = 0
    /\ oracleCalls = 0
    /\ hop = NoHop
    /\ tt = NoTt
    /\ codec \in { [NoCodec EXCEPT !.phase = "state", !.ts = ts] :
                     ts \in WellFormedTraceStates }
                 \cup { [NoCodec EXCEPT !.phase = "ids", !.limbs = l,
                                        !.flags = f] :
                          l \in SpanIdLimbs, f \in TraceFlagValues }
    /\ api = NoApi
    /\ os_environ = NoEnviron
    /\ reporter = NoReporter

\* TraceState.to_header(), as calculate_attributes and inject call it
Serialize ==
    /\ codec.phase = "state"
    /\ codec' = [codec EXCEPT !.phase = "header",
                              !.header = to_header(codec.ts)]
    /\ UNCHANGED <<core, api, os_environ, reporter>>

\* TraceState.from_header(...) as calculate_attributes calls it: the
\* header string itself is the argument
ParseHeader ==
    /\ codec.phase = "header"
    /\ codec' = [codec EXCEPT !.phase = "parsed",
                              !.parsed = from_header(CharsOf(codec.header))]
    /\ UNCHANGED <<core, api, os_environ, reporter>>

\* format_span_id and format_trace_flags
FormatIds ==
    /\ codec.phase = "ids"
    /\ codec' = [codec EXCEPT
                   !.phase = "formatted",
                   !.span_id_hex = format_span_id_limbs(codec.limbs),
                   !.flags_hex = format_trace_flags(codec.flags)]
    /\ UNCHANGED <<core, api, os_environ, reporter>>

CodecNext == Serialize \/ ParseHeader \/ FormatIds

CodecSpec == CodecInit /\ [][CodecNext]_vars

\* C21: for every TraceState with unique keys and no malformed member,
\* parsing the header that serializing it gave yields the same ordered list
\* of (key, value) members.
C21_ParseOfSerializedIsSame ==
    (codec.phase = "parsed") => codec.parsed = codec.ts

\* the 16-bit limbs a string of 16 hex digits stands for
LimbsOfHex(s) == [i \in 1..4 |-> HexToInt(SubSeq(s, 4 * i - 3, 4 * i))]

\* C22: format_span_id gives exactly 16 lowercase hex characters,
\* zero-padded, whose numeric value is the span id, for span ids over the
\* whole 64-bit range; format_trace_flags gives exactly 2 lowercase hex
\* characters, zero-padded, whose numeric value is the flags, for 0..255.
C22_FixedWidthHex ==
    (codec.phase = "formatted")
    => /\ IsHexString(codec.span_id_hex, 16)
       /\ LimbsOfHex(codec.span_id_hex) = codec.limbs
       /\ IsHexString(codec.flags_hex, 2)
       /\ HexToInt(codec.flags_hex) = codec.flags
       /\ (codec.limbs[1] = 0 /\ codec.limbs[2] = 0 /\ codec.limbs[3] < 32768)
            => format_span_id(65536 * codec.limbs[3] + codec.limbs[4])
                   = codec.span_id_hex

C22_Witness ==
    /\ codec.phase = "formatted"
    /\ codec.limbs = <<65535, 0, 1, 255>>
    /\ codec.flags = 15
    /\ codec.span_id_hex[1] = "f"
    /\ codec.span_id_hex[5] = "0"
    /\ codec.flags_hex = <<"0","f">>

(* ------------------------------ API calls ------------------------------ *)

MaxCalls == 3

\* OboeReadyCode: each constant is the pair (code, text)
OBOE_SERVER_RESPONSE_UNKNOWN == <<0, "Unknown error">>
OBOE_SERVER_RESPONSE_OK == <<1, "Is ready">>

\* OboeReadyCode.code_values(): the dict of the codes 0..5, here its keys
code_values == 0..5

\* what Context.isReady can hand back: integers in and out of the enum,
\* None, a string, a float
ReadyReturnCodes ==
    { [type |-> "int", value |-> n] : n \in (0 - 1)..7 }
    \cup { [type |-> t, value |-> 1] : t \in {"NoneType", "str", "float"} }

\* solarwinds_ready: the value returned for what Context.isReady gave;
\* a bool is rendered as 0/1 under type "bool", a (code, text) pair as its
\* code under type "tuple"
solarwinds_ready(rc, integer_response) ==
    IF rc.type # "int" \/ rc.value \notin code_values
    THEN (IF integer_response
          THEN [type |-> "tuple", value |-> OBOE_SERVER_RESPONSE_UNKNOWN[1]]
          ELSE [type |-> "bool", value |-> 0])
    ELSE (IF integer_response
          THEN [type |-> "int", value |-> rc.value]
          ELSE [type |-> "bool",
                value |-> IF rc.value = OBOE_SERVER_RESPONSE_OK[1]
                          THEN 1 ELSE 0])

\* one trace of the process: its entry span and a child span of it
\* as <<trace id, span id>>
ENTRY_SPAN == <<4369, 43>>
CHILD_SPAN == <<4369, 2748>>
ApiSpans == { ENTRY_SPAN, CHILD_SPAN }

CustomNames == {"a", "b"}

\* set_transaction_name: _apm_txname_manager after the call made while
\* the given span is current; the key is "<trace id>-<span id>" of that
\* span
set_transaction_name(txnames, configured, current_span, custom_name) ==
    IF ~configured THEN txnames
    ELSE [k \in DOMAIN txnames \cup {current_span} |->
            IF k = current_span THEN custom_name ELSE txnames[k]]

\* the inbound metrics processor at the end of the trace's entry span: the
\* custom name cached under the key of that span, "" when there is none
txname_of_trace(txnames) ==
    IF ENTRY_SPAN \in DOMAIN txnames
    THEN txnames[ENTRY_SPAN] ELSE ""

ApiInit ==
    /\ current = NoSpan
    /\ last = NoCall
    /\ carrier = NoCarrier
    /\ nSpans = 0
    /\ oracleCalls = 0
    /\ hop = NoHop
    /\ tt = NoTt
    /\ codec = NoCodec
    /\ api \in { [NoApi EXCEPT !.phase = "running", !.configured = c,
                               !.span = ENTRY_SPAN] :
                   c \in BOOLEAN }
    /\ os_environ = NoEnviron
    /\ reporter = NoReporter

\* the application moves between the spans of the trace: another span
\* becomes the current one
SwitchSpan ==
    /\ api.phase = "running"
    /\ \E s \in ApiSpans \ {api.span} : api' = [api EXCEPT !.span = s]
    /\ UNCHANGED <<core, codec, os_environ, reporter>>

\* set_transaction_name(custom_name) under the current span
SetTransactionName ==
    /\ api.phase = "running"
    /\ api.calls < MaxCalls
    /\ \E custom_name \in CustomNames :
         api' = [api EXCEPT
                   !.calls = api.calls + 1,
                   !.txnames = set_transaction_name(
                                   api.txnames, api.configured, api.span,
                                   custom_name),
                   !.last_given = IF api.configured THEN custom_name
                                  ELSE api.last_given]
    /\ UNCHANGED <<core, codec, os_environ, reporter>>

\* solarwinds_ready(integer_response=...) with Context.isReady giving rc
SolarwindsReady ==
    /\ api.phase = "running"
    /\ \E rc \in ReadyReturnCodes, integer_response \in BOOLEAN :
         api' = [api EXCEPT
                   !.rc = rc, !.integer_response = integer_response,
                   !.ret = solarwinds_ready(rc, integer_response)]
    /\ UNCHANGED <<core, codec, os_environ, reporter>>

ApiNext == SwitchSpan \/ SetTransactionName \/ SolarwindsReady

ApiSpec == ApiInit /\ [][ApiNext]_vars

\* C23: for every value Context.isReady returns, solarwinds_ready with
\* integer_response=False returns True exactly when the value is the OK
\* code 1; with integer_response=True it returns an integer code, the value
\* itself when it is a recognized code and the unknown code when it is not
\* an integer or not recognized.
C23_ReadyResult ==
    (api.ret.type # "none")
    => LET recognized == api.rc.type = "int" /\ api.rc.value \in 0..5
       IN  IF api.integer_response
           THEN /\ api.ret.type = "int"
                /\ api.ret.value = IF recognized THEN api.rc.value ELSE 0
           ELSE /\ api.ret.type = "bool"
                /\ api.ret.value = IF api.rc.type = "int" /\ api.rc.value = 1
                                   THEN 1 ELSE 0

\* C24: after any sequence of set_transaction_name calls made on one
\* trace, from any of its spans, with the inbound metrics processor
\* configured, the custom name used for the trace is the name given in the
\* last call.
C24_LastNameWins ==
    (api.configured /\ api.calls > 0)
    => txname_of_trace(api.txnames) = api.last_given

(* ------------------------- distro environment -------------------------- *)

\* an unset variable is the empty string (the empty list for
\* OTEL_PROPAGATORS, whose value is kept as the list of its names)
UNSET == ""

SOLARWINDS_EXPORTER == "solarwinds_exporter"
OTLP_PROTO_HTTP == "otlp_proto_http"

\* environments _configure is run in; is_lambda stands for
\* AWS_LAMBDA_FUNCTION_NAME and LAMBDA_TASK_ROOT being set
ProcessEnvironments ==
    [OTEL_PROPAGATORS :
        Environments \cup { <<TRACECONTEXT, BAGGAGE>>,
                            <<SOLARWINDS_PROPAGATOR, TRACECONTEXT>> },
     OTEL_TRACES_EXPORTER : {UNSET, "foobar", OTLP_PROTO_HTTP},
     OTEL_METRICS_EXPORTER : {UNSET, "baz", OTLP_PROTO_HTTP},
     is_lambda : BOOLEAN]

\* the default exporter: otlp_proto_http in lambda, solarwinds_exporter
\* elsewhere
default_exporter(is_lambda) ==
    IF is_lambda THEN OTLP_PROTO_HTTP ELSE SOLARWINDS_EXPORTER

\* mutant: the traces exporter is assigned, not defaulted
SolarWindsDistro_configure_Assign(env) ==
    [env EXCEPT
       !.OTEL_PROPAGATORS = distro_configure(env.OTEL_PROPAGATORS),
       !.OTEL_TRACES_EXPORTER = default_exporter(env.is_lambda),
       !.OTEL_METRICS_EXPORTER =
           IF env.OTEL_METRICS_EXPORTER = UNSET /\ env.is_lambda
           THEN OTLP_PROTO_HTTP ELSE env.OTEL_METRICS_EXPORTER]

\* SolarWindsDistro._configure: os.environ after the call; each variable
\* is set with setdefault, the metrics exporter only in lambda
SolarWindsDistro_configure(env) ==
    [env EXCEPT
       !.OTEL_PROPAGATORS = distro_configure(env.OTEL_PROPAGATORS),
       !.OTEL_TRACES_EXPORTER =
           IF env.OTEL_TRACES_EXPORTER = UNSET
           THEN default_exporter(env.is_lambda)
           ELSE env.OTEL_TRACES_EXPORTER,
       !.OTEL_METRICS_EXPORTER =
           IF env.OTEL_METRICS_EXPORTER = UNSET /\ env.is_lambda
           THEN OTLP_PROTO_HTTP ELSE env.OTEL_METRICS_EXPORTER]

EnvInit ==
    /\ current = NoSpan
    /\ last = NoCall
    /\ carrier = NoCarrier
    /\ nSpans = 0
    /\ oracleCalls = 0
    /\ hop = NoHop
    /\ tt = NoTt
    /\ codec = NoCodec
    /\ api = NoApi
    /\ os_environ \in { [phase |-> "start", before |-> e, env |-> e] :
                          e \in ProcessEnvironments }
    /\ reporter = NoReporter

\* SolarWindsDistro()._configure()
DistroConfigure ==
    /\ os_environ.phase = "start"
    /\ os_environ' = [os_environ EXCEPT
                        !.phase = "configured",
                        !.env = SolarWindsDistro_configure(os_environ.env)]
    /\ UNCHANGED <<core, codec, api, reporter>>

EnvNext == DistroConfigure

EnvSpec == EnvInit /\ [][EnvNext]_vars

C26_SwValueFromParentIdAndOracle ==
    SwCall
    => /\ HasKey(last.result.trace_state, SW)
       /\ TraceState_get(last.result.trace_state, SW) = ExpectedSw
       /\ IsSwValue(ExpectedSw)
       /\ SubSeq(ExpectedSw, 18, 19)
            = (IF last.liboboe.do_sample # 0 THEN <<"0", "1">>
               ELSE <<"0", "0">>)

\* a sampled parent whose trace state holds an sw member, the oracle says
\* do_sample = 0: the new sw value ends in 00 and is not the parent's
C26_Witness ==
    /\ SwCall
    /\ is_valid(last.parent)
    /\ sampled(last.parent)
    /\ HasKey(last.parent.trace_state, SW)
    /\ last.liboboe.do_sample = 0
    /\ TraceState_get(last.result.trace_state, SW)
         # TraceState_get(last.parent.trace_state, SW)
    /\ SubSeq(TraceState_get(last.result.trace_state, SW), 18, 19)
         = <<"0", "0">>

(* ----------------------- one oracle call per decision ------------------ *)

\* this step is a call of _SwSampler.should_sample
SwCallStep == nSpans' = nSpans + 1 /\ last'.sampler = SW_SAMPLER

MaxBatch == 2
MaxExports == 2

\* span.parent: None, a span context that is not valid, a valid one
NO_PARENT == "None"
INVALID_PARENT == "invalid"
VALID_PARENT == "valid"

\* the finished spans handed to export: the parent, and the names of the
\* span's events in their order
ReadableSpans ==
    [parent : {NO_PARENT, INVALID_PARENT, VALID_PARENT},
     events : { <<>>, <<"exception">>, <<"info", "exception">> }]

\* the lists of spans of one export call
SpanBatches == UNION { [1..n -> ReadableSpans] : n \in 0..MaxBatch }

\* the entry event of export: Context.createEntry with the parent's
\* metadata when the span has a valid parent, without it otherwise
entry_event(span, i) ==
    [kind |-> "entry", span |-> i,
     edge |-> (span.parent # NO_PARENT /\ span.parent = VALID_PARENT),
     label |-> "", event |-> 0]

\* _report_exception_event and _report_info_event, chosen by event.name
span_event(span, i, k) ==
    [kind |-> "event", span |-> i, edge |-> FALSE,
     label |-> IF span.events[k] = "exception" THEN "error" ELSE "info",
     event |-> k]

\* the exit event of export: Context.createExit
exit_event(span, i) ==
    [kind |-> "exit", span |-> i, edge |-> FALSE, label |-> "", event |-> 0]

\* mutant: the exit event is reported before the span's events
span_reports_ExitBeforeEvents(span, i) ==
    <<entry_event(span, i), exit_event(span, i)>>
    \o [k \in 1..Len(span.events) |-> span_event(span, i, k)]

\* one round of the loop of export: the sendReport calls for the i-th span
span_reports(span, i) ==
    <<entry_event(span, i)>>
    \o [k \in 1..Len(span.events) |-> span_event(span, i, k)]
    \o <<exit_event(span, i)>>

RECURSIVE export_from(_, _)
export_from(spans, i) ==
    IF i > Len(spans) THEN <<>>
    ELSE span_reports(spans[i], i) \o export_from(spans, i + 1)

\* SolarWindsSpanExporter.export: the events handed to
\* reporter.sendReport, in call order
SolarWindsSpanExporter_export(spans) == export_from(spans, 1)

ExporterInit ==
    /\ current = NoSpan
    /\ last = NoCall
    /\ carrier = NoCarrier
    /\ nSpans = 0
    /\ oracleCalls = 0
    /\ hop = NoHop
    /\ tt = NoTt
    /\ codec = NoCodec
    /\ api = NoApi
    /\ os_environ = NoEnviron
    /\ reporter = [NoReporter EXCEPT !.phase = "ready"]

\* export(spans), called by the span processor with a batch of finished
\* spans; reports holds what this call sent, sent counts every sendReport
\* call made so far
Export ==
    /\ reporter.phase \in {"ready", "exported"}
    /\ reporter.exports < MaxExports
    /\ \E spans \in SpanBatches :
         LET reports == SolarWindsSpanExporter_export(spans)
         IN  reporter' = [phase |-> "exported", spans |-> spans,
                          reports |-> reports,
                          sent |-> reporter.sent + Len(reports),
                          exports |-> reporter.exports + 1]
    /\ UNCHANGED <<core, codec, api, os_environ>>

ExporterNext == Export

ExporterSpec == ExporterInit /\ [][ExporterNext]_vars

\* the number of sendReport calls made for the spans before the i-th
RECURSIVE ReportsBefore(_, _)
ReportsBefore(spans, i) ==
    IF i <= 1 THEN 0
    ELSE ReportsBefore(spans, i - 1) + Len(spans[i - 1].events) + 2

\* C28: for every list of spans given to export the reporter receives,
\* span by span in list order and with nothing of another span in between,
\* one entry event (with a parent edge exactly when the span has a valid
\* parent), then one event per span event in the span's order, then one
\* exit event: n + 2 sendReport calls for a span with n events, the exit
\* after the entry.
C28_EntryEventsExitPerSpan ==
    [][ (reporter'.exports = reporter.exports + 1)
        => LET spans   == reporter'.spans
               reports == reporter'.reports
           IN  /\ Len(reports) = ReportsBefore(spans, Len(spans) + 1)
               /\ reporter'.sent = reporter.sent + Len(reports)
               /\ \A i \in 1..Len(spans) :
                    LET at == ReportsBefore(spans, i)
                        n  == Len(spans[i].events)
                    IN  /\ reports[at + 1].kind = "entry"
                        /\ reports[at + 1].edge
                             = (spans[i].parent = "valid")
                        /\ reports[at + n + 2].kind = "exit"
                        /\ \A k \in 1..n :
                             /\ reports[at + 1 + k].kind = "event"
                             /\ reports[at + 1 + k].event = k
                             /\ reports[at + 1 + k].label
                                  = (IF spans[i].events[k] = "exception"
                                     THEN "error" ELSE "info")
                        /\ \A p \in (at + 1)..(at + n + 2) :
                             reports[p].span = i
                        /\ Cardinality({ p \in 1..Len(reports) :
                                           reports[p].span = i }) = n + 2 ]_vars

\* a second batch, of a root span with two events and a child span with
\* one event, has been exported: 4 + 3 sendReport calls, the child's entry
\* event with the parent edge
C28_Witness ==
    /\ reporter.phase = "exported"
    /\ reporter.exports = 2
    /\ Len(reporter.spans) = 2
    /\ reporter.spans[1] = [parent |-> "None",
                            events |-> <<"info", "exception">>]
    /\ reporter.spans[2] = [parent |-> "valid", events |-> <<"exception">>]
    /\ Len(reporter.reports) = 7
    /\ reporter.reports[4].kind = "exit"
    /\ reporter.reports[5].kind = "entry"
    /\ reporter.reports[5].edge
    /\ reporter.sent > 7

(* ---------------------------- frame of inject -------------------------- *)

\* this step is SolarWindsFormat.inject, run as a member of the composite
\* propagator
SwInjectStep ==
    /\ Len(hop'.ran) = Len(hop.ran) + 1
    /\ hop'.ran[Len(hop'.ran)] = SOLARWINDS_PROPAGATOR

\* this step is the extract of an inbound request
ExtractStep == hop.phase = "ready" /\ hop'.phase = "serving"

WithParsedState(span_context, header) ==
    [span_context EXCEPT !.trace_state = from_header(<<header>>)]

\* C30: SolarWindsFormat.inject is idempotent: a second inject into a
\* carrier for the same span context leaves the tracestate header the
\* first one wrote, and inject for a span context whose trace state is the
\* parse of the injected header, span id and flags being the same, writes
\* that header again.
C30_InjectIdempotent ==
    [][ carrier'.written
        => /\ (carrier.written => carrier'.tracestate = carrier.tracestate)
           /\ inject_tracestate(
                  WithParsedState(carrier'.ctx, carrier'.tracestate))
                = carrier'.tracestate ]_vars

\* inject has run for a started span whose trace state holds the parent's
\* sw value and a foreign member; the header holds the span's own sw value
\* and the foreign member
C30_Witness ==
    /\ carrier.written
    /\ current.exists
    /\ carrier.ctx = current.ctx
    /\ Len(carrier.ctx.trace_state) >= 2
    /\ HasKey(carrier.ctx.trace_state, SW)
    /\ TraceState_get(from_header(<<carrier.tracestate>>), SW)
         # TraceState_get(carrier.ctx.trace_state, SW)
    /\ Without(from_header(<<carrier.tracestate>>), SW)
         = Without(carrier.ctx.trace_state, SW)

====
